---------------------------- MODULE Spec2Model ----------------------------
(***************************************************************************)
(* A model of Ticket_Master.py: the query-parameter builder, the date      *)
(* normalizer and the pagination exporter fetch_all_events_to_csv, which   *)
(* follows the upstream's "next" links and streams one CSV row per event.  *)
(*                                                                         *)
(* Python values are modelled as follows.  A dict is a function whose      *)
(* DOMAIN is its set of keys, a list is a sequence and a str is a string.  *)
(* None is the string None where a str may stand and the one-field record  *)
(* NoneDict where a dict may stand (TLC compares only values of one kind). *)
(***************************************************************************)
EXTENDS Integers, Sequences, FiniteSets, TLC

VARIABLES
    pc,        \* the exporter's position: start, request, check, rows, done, failed
    is_open,   \* whether the output file f is open
    output,    \* the rows written to the output file so far
    next_url,  \* the local next_url
    params,    \* the local params
    resp,      \* the local resp: the last response received
    events,    \* the local events: the event list of the page being written
    i,         \* how many events of `events` the for loop has consumed
    error,     \* the exception that ended the run, NoError while there is none
    opens,     \* history: how many times the output file was opened
    nreq,      \* history: how many requests were issued
    nparams,   \* history: how many requests had query parameters attached
    lastReq,   \* history: the last request issued, [url, params]
    received,  \* history: the events of the success pages read so far, in order
    pagesOk    \* history: how many success pages were read

vars == <<pc, is_open, output, next_url, params, resp, events, i, error,
          opens, nreq, nparams, lastReq, received, pagesOk>>

----------------------------------------------------------------------------
(* Bounds of the model. *)

\* The upstream serves chains of at most MaxPages pages.
MaxPages == 2

\* A page carries at most MaxEventsPerPage events.
MaxEventsPerPage == 2

\* The events an unbounded upstream serves in all: after that its pages carry
\* no events.
MaxRows == MaxEventsPerPage

----------------------------------------------------------------------------
(* Python values. *)

None == "None"

NoneDict == [None |-> None]

EmptyDict == <<>>

\* d.get(k, default)
Get(d, k, default) == IF k \in DOMAIN d THEN d[k] ELSE default

\* The exception d[k] raises for a missing key.
KeyError == "KeyError"

\* d[k]
Subscript(d, k) == IF k \in DOMAIN d THEN d[k] ELSE KeyError

\* bool(s) of a str or None
Truthy(s) == s # None /\ s # ""

\* a or b
Or(a, b) == IF Truthy(a) THEN a ELSE b

\* "%02d" % n, as strftime pads a field
Pad2(n) == IF n < 10 THEN "0" \o ToString(n) ELSE ToString(n)

----------------------------------------------------------------------------
(* The program's constants. *)

ROOT == "https://app.ticketmaster.com/discovery/v2/events.json"

OK == 200

PageSize == 200

Header == <<"event_name", "event_datetime">>

NoError == ""

NoResp == [status_code |-> 0, text |-> "", json |-> EmptyDict]

NoReq == [url |-> "", params |-> NoneDict]

\* main's arguments
MainArgs ==
    [api_key |-> "", city |-> "Calgary", country |-> "CA",
     start |-> [year |-> 2025, month |-> 10, day |-> 1,
                hour |-> 0, minute |-> 0, second |-> 0],
     end   |-> [year |-> 2025, month |-> 12, day |-> 1,
                hour |-> 0, minute |-> 0, second |-> 0]]

----------------------------------------------------------------------------
(* The pure functions. *)

get_params(api_key, startDateTime, endDateTime, city, countryCode, size, sort) ==
    [apikey |-> api_key, city |-> city, countryCode |-> countryCode,
     startDateTime |-> startDateTime, endDateTime |-> endDateTime,
     size |-> ToString(size), sort |-> sort]

get_iso_date(dt) ==
    ToString(dt.year) \o "-" \o Pad2(dt.month) \o "-" \o Pad2(dt.day) \o "T"
        \o Pad2(dt.hour) \o ":" \o Pad2(dt.minute) \o ":" \o Pad2(dt.second) \o "Z"

\* extract_event_datetime with ev["dates"]["start"] in place of the gets.
extract_event_datetime_subscript(ev) ==
    LET dates == Subscript(ev, "dates")
        start == IF dates = KeyError THEN KeyError ELSE Subscript(dates, "start")
    IN  IF start = KeyError
        THEN KeyError
        ELSE IF Truthy(Get(start, "dateTime", None))
             THEN Subscript(start, "dateTime")
             ELSE IF Truthy(Get(start, "localDate", None))
                  THEN Get(start, "localDate", None) \o "T"
                           \o Or(Get(start, "localTime", None), "00:00:00")
                  ELSE ""

\* extract_event_datetime with the local date tried before the timestamp.
extract_event_datetime_local_first(ev) ==
    LET start == Get(Get(ev, "dates", EmptyDict), "start", EmptyDict)
        local_date == Get(start, "localDate", None)
        local_time == Or(Get(start, "localTime", None), "00:00:00")
    IN  IF Truthy(local_date)
        THEN local_date \o "T" \o local_time
        ELSE IF Truthy(Get(start, "dateTime", None))
             THEN Subscript(start, "dateTime")
             ELSE ""

extract_event_datetime(ev) ==
    LET start == Get(Get(ev, "dates", EmptyDict), "start", EmptyDict)
        local_date == Get(start, "localDate", None)
        local_time == Or(Get(start, "localTime", None), "00:00:00")
    IN  IF Truthy(Get(start, "dateTime", None))
        THEN Subscript(start, "dateTime")
        ELSE IF Truthy(local_date)
             THEN local_date \o "T" \o local_time
             ELSE ""

\* The error message of the RuntimeError raised for a non-200 response.
ApiError(r) == "API error " \o ToString(r.status_code) \o ": " \o r.text


----------------------------------------------------------------------------
(* The upstream: what requests.get may return. *)

EvNone == EmptyDict

EvShowA ==
    [name |-> "Show A", dates |-> [start |-> [dateTime |-> "2025-10-05T19:00:00Z"]]]

EvShowB ==
    [name |-> "Show B", dates |-> [start |-> [localDate |-> "2025-10-06"]]]

\* The event records of the exported pages: one with no field at all, one
\* with a name and a local date.
Events == {EvNone, EvShowB}

EventLists == UNION {[1..n -> Events] : n \in 0..MaxEventsPerPage}

Page2Url == "https://app.ticketmaster.com/discovery/v2/events.json?page=1"

\* The values of a next link's href: empty, the discovery endpoint itself,
\* another page.
Hrefs == {"", ROOT, Page2Url}

\* data with "_embedded" missing, without "events", or with a list of events
EmbeddedParts ==
    {EmptyDict, "_embedded" :> EmptyDict}
        \cup {"_embedded" :> [events |-> l] : l \in EventLists}

\* data with "_links" missing, without "next", with a next without "href",
\* or with an href
LinksParts ==
    {EmptyDict, "_links" :> EmptyDict, "_links" :> [next |-> EmptyDict]}
        \cup {"_links" :> [next |-> [href |-> u]] : u \in Hrefs}

Bodies == {e @@ l : e \in EmbeddedParts, l \in LinksParts}

\* A body with an event and a next link, as a failed response may carry too.
FullBody == ("_embedded" :> [events |-> <<EvShowA>>])
                @@ ("_links" :> [next |-> [href |-> Page2Url]])

FailStatuses == {201, 401}

SuccessResponses == {[status_code |-> OK, text |-> "", json |-> d] : d \in Bodies}

FailResponses ==
    {[status_code |-> s, text |-> "Unauthorized", json |-> FullBody] : s \in FailStatuses}

Responses == SuccessResponses \cup FailResponses

\* Every shape of dates.start: each of the three fields missing, empty or set.
StartFields ==
    [dateTime |-> {"", "2025-10-05T19:00:00Z"},
     localDate |-> {"", "2025-10-06"},
     localTime |-> {"", "19:30:00"}]

StartDicts ==
    UNION {{s \in [K -> UNION {StartFields[k] : k \in K}] :
                \A k \in K : s[k] \in StartFields[k]} :
           K \in SUBSET (DOMAIN StartFields)}

\* Every shape of an event record: name, dates and dates.start missing or not.
EventRecords ==
    {n @@ d : n \in {EmptyDict, [name |-> "Show A"]},
              d \in {EmptyDict, [dates |-> EmptyDict]}
                        \cup {[dates |-> [start |-> s]] : s \in StartDicts}}

\* The events a page's body carries.
EventsOf(data) == Get(Get(data, "_embedded", EmptyDict), "events", <<>>)

\* The body carries a next link: a non-empty href under _links.next.
CarriesNextLink(data) ==
    /\ "_links" \in DOMAIN data
    /\ "next" \in DOMAIN data["_links"]
    /\ "href" \in DOMAIN data["_links"]["next"]
    /\ data["_links"]["next"]["href"] # ""

\* A success response that carries a next link.
Followable(r) == r.status_code = OK /\ CarriesNextLink(r.json)

\* The one-page upstream of the event records: a page with one record of any
\* shape and no next link to follow, or a failure.
RecordResponses ==
    {[status_code |-> OK, text |-> "", json |-> e @@ l] :
        e \in {EmptyDict, "_embedded" :> EmptyDict}
                 \cup {"_embedded" :> [events |-> <<ev>>] : ev \in EventRecords},
        l \in {x \in LinksParts : ~CarriesNextLink(x)}}
      \cup FailResponses

\* History counters stop counting at MaxPages.
Count(n) == IF n < MaxPages THEN n + 1 ELSE n

----------------------------------------------------------------------------
(* fetch_all_events_to_csv *)

Init ==
    /\ pc = "start"
    /\ is_open = FALSE
    /\ output = <<>>
    /\ next_url = None
    /\ params = NoneDict
    /\ resp = NoResp
    /\ events = <<>>
    /\ i = 0
    /\ error = NoError
    /\ opens = 0
    /\ nreq = 0
    /\ nparams = 0
    /\ lastReq = NoReq
    /\ received = <<>>
    /\ pagesOk = 0

\* `while True` in place of `while next_url`.
LoopForever(url) == "request"

\* The test of `while next_url`: the position it leads to.
Loop(url) == IF Truthy(url) THEN "request" ELSE "done"

\* Build the parameters, open the file, write the header, enter the loop.
Start ==
    /\ pc = "start"
    /\ params' = get_params(MainArgs.api_key, get_iso_date(MainArgs.start),
                            get_iso_date(MainArgs.end), MainArgs.city,
                            MainArgs.country, PageSize, "date,asc")
    /\ is_open' = (Loop(ROOT) # "done")
    /\ opens' = opens + 1
    /\ output' = <<Header>>
    /\ next_url' = ROOT
    /\ pc' = Loop(ROOT)
    /\ UNCHANGED <<resp, events, i, error, nreq, nparams, lastReq, received, pagesOk>>

\* requests.get(next_url, params=params if next_url == ROOT else None),
\* answered by r.
Fetch(r) ==
    /\ pc = "request"
    /\ resp' = r
    /\ lastReq' = [url |-> next_url,
                   params |-> IF next_url = ROOT THEN params ELSE NoneDict]
    /\ nreq' = Count(nreq)
    /\ nparams' = IF lastReq'.params # NoneDict THEN Count(nparams) ELSE nparams
    /\ pc' = "check"
    /\ UNCHANGED <<is_open, output, next_url, params, events, i, error, opens,
                   received, pagesOk>>

\* A request to an upstream whose chain of pages ends within MaxPages.
GetPage ==
    \E r \in Responses :
        /\ nreq + 1 >= MaxPages => ~Followable(r)
        /\ Fetch(r)

\* A request to an upstream whose chain of pages need not end.
GetPageUnbounded ==
    \E r \in Responses :
        /\ Len(received) + Len(EventsOf(r.json)) <= MaxRows
        /\ Fetch(r)

\* Raise that tries the request again.
RaiseRetry ==
    /\ pc = "check"
    /\ resp.status_code # OK
    /\ pc' = "request"
    /\ UNCHANGED <<is_open, output, next_url, params, resp, events, i, error,
                   opens, nreq, nparams, lastReq, received, pagesOk>>

\* Raise that empties the file back to its header.
RaiseRollback ==
    /\ pc = "check"
    /\ resp.status_code # OK
    /\ error' = ApiError(resp)
    /\ output' = <<Header>>
    /\ is_open' = FALSE
    /\ pc' = "failed"
    /\ UNCHANGED <<next_url, params, resp, events, i, opens, nreq, nparams,
                   lastReq, received, pagesOk>>

\* Raise out of a file opened without a with statement.
RaiseLeak ==
    /\ pc = "check"
    /\ resp.status_code # OK
    /\ error' = ApiError(resp)
    /\ pc' = "failed"
    /\ UNCHANGED <<is_open, output, next_url, params, resp, events, i, opens,
                   nreq, nparams, lastReq, received, pagesOk>>

\* The non-200 response: raise RuntimeError, and the with statement closes f.
Raise ==
    /\ pc = "check"
    /\ resp.status_code # OK
    /\ error' = ApiError(resp)
    /\ is_open' = FALSE
    /\ pc' = "failed"
    /\ UNCHANGED <<output, next_url, params, resp, events, i, opens, nreq,
                   nparams, lastReq, received, pagesOk>>

\* data = resp.json(); events = data.get("_embedded", {}).get("events", [])
ReadPage ==
    /\ pc = "check"
    /\ resp.status_code = OK
    /\ events' = Get(Get(resp.json, "_embedded", EmptyDict), "events", <<>>)
    /\ i' = 0
    /\ received' = received \o events'
    /\ pagesOk' = Count(pagesOk)
    /\ pc' = "rows"
    /\ UNCHANGED <<is_open, output, next_url, params, resp, error, opens, nreq,
                   nparams, lastReq>>

\* WriteRow that skips an event with no date.
WriteRowSkipUndated ==
    /\ pc = "rows"
    /\ i < Len(events)
    /\ LET ev == events[i + 1]
           name == Get(ev, "name", "")
           when == extract_event_datetime(ev)
       IN  /\ output' = IF when = "" THEN output ELSE Append(output, <<name, when>>)
           /\ i' = i + 1
    /\ UNCHANGED <<pc, is_open, error, next_url, params, resp, events, opens,
                   nreq, nparams, lastReq, received, pagesOk>>

\* One iteration of `for ev in events`: write the event's row.  A KeyError
\* leaves the function, and the with statement closes f.
WriteRow ==
    /\ pc = "rows"
    /\ i < Len(events)
    /\ LET ev == events[i + 1]
           name == Get(ev, "name", "")
           when == extract_event_datetime(ev)
       IN  IF when = KeyError
           THEN /\ error' = KeyError
                /\ is_open' = FALSE
                /\ pc' = "failed"
                /\ UNCHANGED <<output, i>>
           ELSE /\ output' = Append(output, <<name, when>>)
                /\ i' = i + 1
                /\ UNCHANGED <<error, is_open, pc>>
    /\ UNCHANGED <<next_url, params, resp, events, opens, nreq, nparams, lastReq,
                   received, pagesOk>>

\* NextPage that goes on only after a page that had events.
NextPageOnEvents ==
    /\ pc = "rows"
    /\ i = Len(events)
    /\ LET links == Get(resp.json, "_links", EmptyDict)
           next_link == Get(links, "next", EmptyDict)
       IN  next_url' = IF Len(events) > 0 THEN Get(next_link, "href", None) ELSE None
    /\ params' = NoneDict
    /\ pc' = Loop(next_url')
    /\ is_open' = (Loop(next_url') # "done")
    /\ UNCHANGED <<output, resp, events, i, error, opens, nreq, nparams, lastReq,
                   received, pagesOk>>

\* NextPage without `params = None`.
NextPageKeepParams ==
    /\ pc = "rows"
    /\ i = Len(events)
    /\ LET links == Get(resp.json, "_links", EmptyDict)
           next_link == Get(links, "next", EmptyDict)
       IN  next_url' = Get(next_link, "href", None)
    /\ pc' = Loop(next_url')
    /\ is_open' = (Loop(next_url') # "done")
    /\ UNCHANGED <<output, params, resp, events, i, error, opens, nreq, nparams,
                   lastReq, received, pagesOk>>

\* NextPage after a for loop that breaks after its first row.
NextPageEarly ==
    /\ pc = "rows"
    /\ i = Len(events) \/ i >= 1
    /\ LET links == Get(resp.json, "_links", EmptyDict)
           next_link == Get(links, "next", EmptyDict)
       IN  next_url' = Get(next_link, "href", None)
    /\ params' = NoneDict
    /\ pc' = Loop(next_url')
    /\ is_open' = (Loop(next_url') # "done")
    /\ UNCHANGED <<output, resp, events, i, error, opens, nreq, nparams, lastReq,
                   received, pagesOk>>

\* After the for loop: take the next link, drop the parameters, test the
\* while condition; leaving the loop leaves the with statement, which
\* closes f.
NextPage ==
    /\ pc = "rows"
    /\ i = Len(events)
    /\ LET links == Get(resp.json, "_links", EmptyDict)
           next_link == Get(links, "next", EmptyDict)
       IN  next_url' = Get(next_link, "href", None)
    /\ params' = NoneDict
    /\ pc' = Loop(next_url')
    /\ is_open' = (Loop(next_url') # "done")
    /\ UNCHANGED <<output, resp, events, i, error, opens, nreq, nparams, lastReq,
                   received, pagesOk>>

Next == Start \/ GetPage \/ Raise \/ ReadPage \/ WriteRow \/ NextPage

Spec == Init /\ [][Next]_vars


----------------------------------------------------------------------------
(* The exporter on a one-page upstream that serves every shape of event   *)
(* record.                                                                 *)

GetRecordPage == \E r \in RecordResponses : Fetch(r)

RecordNext == Start \/ GetRecordPage \/ Raise \/ ReadPage \/ WriteRow \/ NextPage

RecordSpec == Init /\ [][RecordNext]_vars

----------------------------------------------------------------------------
(* The exporter on an upstream whose chain of pages need not end.  The    *)
(* program is sequential and requests.get blocks until the upstream       *)
(* answers: a step that can be taken is taken.                             *)

LiveNext == Start \/ GetPageUnbounded \/ Raise \/ ReadPage \/ WriteRow \/ NextPage

LiveSpec == Init /\ [][LiveNext]_vars /\ WF_vars(LiveNext)

----------------------------------------------------------------------------
(* The claims. *)

Terminal == pc \in {"done", "failed"}

\* The row the specification gives for each event of the exported pages.
ExpectedRow(ev) ==
    CASE ev = EvNone  -> <<"", "">>
      [] ev = EvShowA -> <<"Show A", "2025-10-05T19:00:00Z">>
      [] ev = EvShowB -> <<"Show B", "2025-10-06T00:00:00">>

ExpectedRows(evs) == [k \in 1..Len(evs) |-> ExpectedRow(evs[k])]

\* C1: a response with a status code other than 200, first or later, ends
\* the export at once: the step that follows it is the failure, whose error
\* carries the status code and the raw body; it writes no row and issues no
\* request, and nothing happens after the failure.
C1_FailsImmediately ==
    [][ /\ (pc = "check" /\ resp.status_code # 200) =>
            /\ pc' = "failed"
            /\ error' = "API error " \o ToString(resp.status_code) \o ": " \o resp.text
            /\ output' = output
            /\ nreq' = nreq
        /\ pc = "failed" => UNCHANGED vars ]_vars

\* C1's case: the export failed on its second response, after a page with
\* rows.
C1_Witness ==
    /\ pc = "failed"
    /\ nreq = 2
    /\ Len(output) > 1
    /\ error = "API error 401: Unauthorized"

\* C2: when the export has failed on page k, the file holds the header and
\* the rows of the events of the k-1 pages read before, in order; when the
\* first response failed it holds the header alone.
C2_FileAfterFailure ==
    pc = "failed" =>
        /\ pagesOk = nreq - 1
        /\ output = <<Header>> \o ExpectedRows(received)
        /\ nreq = 1 => output = <<Header>>

\* C2's case: the second response failed after a page of two events.
C2_Witness ==
    /\ pc = "failed"
    /\ nreq = 2
    /\ output = <<Header, <<"Show B", "2025-10-06T00:00:00">>, <<"", "">>>>

\* C3: the exporter goes on to another request exactly when the success
\* response just processed carries a next link, whatever the number of its
\* events; it stops successfully on the first response without one, having
\* issued one request per page and written the rows of every page.
C3_FollowsLinksOnly ==
    /\ (pc = "request" /\ nreq > 0) => Followable(resp)
    /\ pc = "done" =>
        /\ resp.status_code = 200
        /\ ~CarriesNextLink(resp.json)
        /\ error = NoError
        /\ nreq = pagesOk
        /\ output = <<Header>> \o ExpectedRows(received)

\* C3's case: two pages, both without events, the first with a next link.
C3_Witness ==
    /\ pc = "done"
    /\ nreq = 2
    /\ received = <<>>

\* The dates.start of an event record, empty when there is none.
StartOf(ev) ==
    IF "dates" \in DOMAIN ev /\ "start" \in DOMAIN ev["dates"]
    THEN ev["dates"]["start"]
    ELSE EmptyDict

\* The precedence of the date normalizer with "has" read as "the field is
\* present".
DatetimeByPresence(ev) ==
    LET s == StartOf(ev)
    IN  IF "dateTime" \in DOMAIN s
        THEN s["dateTime"]
        ELSE IF "localDate" \in DOMAIN s
             THEN s["localDate"] \o "T"
                      \o (IF "localTime" \in DOMAIN s THEN s["localTime"] ELSE "00:00:00")
             ELSE ""

\* The field is present and not empty.
HasValue(s, k) == k \in DOMAIN s /\ s[k] # ""

\* The precedence of the date normalizer with "has" read as "the field is
\* present and not empty".
DatetimeByValue(ev) ==
    LET s == StartOf(ev)
    IN  IF HasValue(s, "dateTime")
        THEN s["dateTime"]
        ELSE IF HasValue(s, "localDate")
             THEN s["localDate"] \o "T"
                      \o (IF HasValue(s, "localTime") THEN s["localTime"] ELSE "00:00:00")
             ELSE ""

\* C4 as stated: the date-time written for every event record is the one
\* the precedence gives when a field counts as soon as it is present:
\* dateTime unchanged, else localDate, "T" and localTime or "00:00:00" when
\* localTime is absent, else the empty string.
C4_PrecedenceByPresence ==
    \A k \in 1..(Len(output) - 1) : output[k + 1][2] = DatetimeByPresence(received[k])

\* C4, amended: the date-time written for every event record is the one the
\* precedence gives when a field counts only if it is present and not
\* empty: a non-empty dateTime unchanged, else a non-empty localDate, "T"
\* and the localTime, or "00:00:00" when localTime is absent or empty, else
\* the empty string.
C4_PrecedenceByValue ==
    \A k \in 1..(Len(output) - 1) : output[k + 1][2] = DatetimeByValue(received[k])

\* C4's case: the row of a record with an empty dateTime, a local date and
\* no local time.
C4_Witness ==
    /\ Len(output) = 2
    /\ received[1] = [dates |-> [start |-> [dateTime |-> "", localDate |-> "2025-10-06"]]]
    /\ output[2] = <<"", "2025-10-06T00:00:00">>

\* C5: only a response with a status code other than 200 makes the export
\* fail: whatever is missing from a success response or from its event
\* record, no error is raised, the record's row is written and the export
\* completes.
C5_OnlyStatusFails ==
    /\ error # NoError => (resp.status_code # 200 /\ error # KeyError)
    /\ pc = "failed" => error # NoError
    /\ pc = "done" => (error = NoError /\ Len(output) = 1 + Len(received))

\* C5's case: the export completed on a response with no _links whose one
\* event record has no field at all.
C5_Witness ==
    /\ pc = "done"
    /\ "_links" \notin DOMAIN resp.json
    /\ received = <<EmptyDict>>
    /\ output = <<Header, <<"", "">>>>

\* C6: at every point the output is the header row, written once and first,
\* followed by one row (name or "", date-time) for each event processed so
\* far, in the upstream's order within and across pages; an event with no
\* date information has a row with an empty date-time.
C6_HeaderThenRowPerEvent ==
    IF pc = "start"
    THEN output = <<>>
    ELSE output = <<Header>>
            \o ExpectedRows(SubSeq(received, 1, Len(received) - (Len(events) - i)))

\* C6's case: two pages of two events each, all written, an undated event
\* first.
C6_Witness ==
    /\ pc = "done"
    /\ nreq = 2
    /\ Len(output) = 5
    /\ output[2] = <<"", "">>
    /\ output[3] = <<"Show B", "2025-10-06T00:00:00">>

\* C7: the output file is opened exactly once, at the start, is open while
\* the export runs and is closed in every terminal state, after normal
\* completion and after a failure on any page.
C7_FileClosedAtEnd ==
    /\ opens = (IF pc = "start" THEN 0 ELSE 1)
    /\ pc \in {"request", "check", "rows"} => is_open
    /\ Terminal => ~is_open

\* C7's case: the export failed on a later page, and the file is closed.
C7_Witness ==
    /\ pc = "failed"
    /\ pagesOk = 1
    /\ opens = 1
    /\ ~is_open

\* C8: whenever the exporter is about to issue a request, every event of
\* every page received so far has its row in the output; the events not yet
\* written are always events of the one page being processed.
C8_PageWrittenBeforeNextRequest ==
    /\ pc = "request" => (i = Len(events) /\ Len(output) = 1 + Len(received))
    /\ pc # "start" => Len(received) - (Len(output) - 1) = Len(events) - i

\* C8's case: a first page of two events is written and the request for
\* the second page is about to be issued.
C8_Witness ==
    /\ pc = "request"
    /\ nreq = 1
    /\ Len(events) = 2
    /\ Len(output) = 3

\* The query parameters of main's export.
ExpectedParams ==
    [apikey |-> "", city |-> "Calgary", countryCode |-> "CA",
     startDateTime |-> "2025-10-01T00:00:00Z", endDateTime |-> "2025-12-01T00:00:00Z",
     size |-> "200", sort |-> "date,asc"]

\* C9: exactly one request carries the query parameters, the first, which
\* goes to the discovery endpoint; every later request goes to the next link
\* the upstream supplied and carries no parameters, also when that link is
\* the discovery endpoint's URL.
C9_ParamsOnFirstRequestOnly ==
    /\ nreq >= 1 => nparams = 1
    /\ (pc = "check" /\ nreq = 1) => lastReq = [url |-> ROOT, params |-> ExpectedParams]
    /\ (pc = "check" /\ nreq > 1) => (lastReq.url = next_url /\ lastReq.params = NoneDict)
    /\ (pc = "request" /\ nreq >= 1) => next_url = resp.json["_links"]["next"]["href"]

\* C9's case: the second request went to a next link equal to the discovery
\* endpoint's URL.
C9_Witness ==
    /\ pc = "check"
    /\ nreq = 2
    /\ lastReq = [url |-> ROOT, params |-> NoneDict]

\* The upstream has just answered with a success response that carries a
\* next link, and the exporter is about to follow it.
FollowingLink == pc = "request" /\ nreq > 0 /\ Followable(resp)

\* C10 as stated: every run reaches a terminal state, whatever the upstream
\* answers.
C10_AlwaysTerminates == <>Terminal

\* C10, amended: every run reaches a terminal state unless the upstream
\* answers again and again with a success response that carries a next link.
C10_TerminatesUnlessLinksForever == <>Terminal \/ []<>FollowingLink

\* C10's case: the export completed after following a next link and writing
\* all the events the upstream had.
C10_Witness ==
    /\ pc = "done"
    /\ nreq >= 2
    /\ Len(output) = 1 + MaxRows

============================================================================
